---- MODULE Spec2Model ----
(***************************************************************************)
(* ProductionDataPipeline (src/data_pipeline.py): the retrying fetcher,    *)
(* the quality gate, the two fallback chains and the batch fetch, as a     *)
(* state machine.  One step of the machine is one request to an external   *)
(* source (yf.download, requests.get) followed by the code that runs up to *)
(* the next request, or one call / return of a method of the pipeline.     *)
(***************************************************************************)
EXTENDS Integers, Sequences, FiniteSets, TLC

(***************************************************************************)
(* Bounds of the model.                                                    *)
(***************************************************************************)
MaxBatch == 3      \* longest list of tickers handed to a batch fetch
MaxObs == 2        \* longest list of observations in a FRED response
MaxGateCalls == 2  \* calls of the gate on one table

(***************************************************************************)
(* Program constants.                                                      *)
(***************************************************************************)
max_retries == 3          \* _fetch_from_yfinance
MinRows == 20             \* len(stock_data) < 20, len(data) < 20
MinMarketRows == 50       \* len(market_data) < 50
FetchStaleDays == 7       \* days_old > 7 (fetcher warning)
GateStaleDays == 10       \* days_old > 10 (gate warning)

(***************************************************************************)
(* Floats.  A float is the fraction num/den with den >= 0; den = 0 is one  *)
(* of the three special values nan (0/0), +inf (1/0), -inf (-1/0).         *)
(***************************************************************************)
Abs(n) == IF n < 0 THEN 0 - n ELSE n
Sign(n) == IF n < 0 THEN 0 - 1 ELSE IF n > 0 THEN 1 ELSE 0

F(n) == [num |-> n, den |-> 1]
Frac(n, d) == [num |-> n, den |-> d]
NaN == [num |-> 0, den |-> 0]
isnan(x) == x.den = 0 /\ x.num = 0

\* x > 0 and x <= 0 as numpy evaluates them: every comparison with nan is false
GtZero(x) == x.num > 0
\* a test for negative prices only
LtZero(x) == ~isnan(x) /\ x.num < 0

LeZero(x) == ~isnan(x) /\ x.num <= 0

\* a division that is left out
DivIntForgotten(x, k) == x

\* x / k for an integer k > 0
DivInt(x, k) == IF x.den = 0 THEN x ELSE [num |-> x.num, den |-> x.den * k]

\* equality of the numbers two floats stand for (nan equals nothing)
FloatEq(x, y) ==
    /\ ~isnan(x) /\ ~isnan(y)
    /\ IF x.den = 0 \/ y.den = 0 THEN x = y ELSE x.num * y.den = y.num * x.den

\* cur / prev - 1, one element of Series.pct_change()
PctChange(prev, cur) ==
    IF isnan(prev) \/ isnan(cur) THEN NaN
    ELSE IF prev.den = 0 \/ cur.den = 0 THEN NaN
    ELSE IF prev.num = 0
         THEN (IF cur.num = 0 THEN NaN ELSE [num |-> Sign(cur.num), den |-> 0])
         ELSE [num |-> Sign(prev.num) * (cur.num * prev.den - prev.num * cur.den),
               den |-> Abs(prev.num) * cur.den]

\* r > 0.5, the abs left out
GtHalf(r) == IF r.den = 0 THEN r.num > 0 ELSE 2 * r.num > r.den

\* abs(r) > 0.5
AbsGtHalf(r) == IF r.den = 0 THEN r.num # 0 ELSE 2 * Abs(r.num) > r.den

(***************************************************************************)
(* Tables (DataFrame): named columns and rows ordered by date; a cell is a *)
(* float, a missing cell is nan.                                           *)
(***************************************************************************)
Len0(t) == Len(t.rows)                                \* len(data)
empty(t) == Len(t.rows) = 0 \/ t.columns = {}         \* data.empty

RowHasNaN(t, r) == \E c \in t.columns : isnan(r.cells[c])

\* data.dropna(): the rows without a missing cell, in order
dropna(t) == [t EXCEPT !.rows = SelectSeq(t.rows, LAMBDA r : ~RowHasNaN(t, r))]

\* data.isnull().sum().sum(): the number of missing cells
NullCount(t) ==
    Cardinality({ic \in (1..Len(t.rows)) \X t.columns : isnan(t.rows[ic[1]].cells[ic[2]])})

\* data['Close'] as a sequence of floats
CloseColumn(t) == [i \in 1..Len(t.rows) |-> t.rows[i].cells["Close"]]

\* Series.dropna()
SeriesDropna(s) == SelectSeq(s, LAMBDA x : ~isnan(x))

\* Series.pct_change(): nan first, then the change from each row to the next
pct_change(s) == [i \in 1..Len(s) |-> IF i = 1 THEN NaN ELSE PctChange(s[i - 1], s[i])]

\* data.index[-1], and its age in days at the time now
LatestDate(t) == t.rows[Len(t.rows)].date
DaysOld(t, now) == now - LatestDate(t)

(***************************************************************************)
(* Exceptions.  An exception is a record: its kind, and one field for each *)
(* thing its message embeds (the ticker, a row count, ...).                *)
(***************************************************************************)
NoDataReturned(t) == [kind |-> "NoDataReturned", ticker |-> t]
InsufficientDataPoints(t, n) == [kind |-> "InsufficientDataPoints", ticker |-> t, n |-> n]
ValidationFailed(t) == [kind |-> "ValidationFailed", ticker |-> t]
InsufficientMarketData(n) == [kind |-> "InsufficientMarketData", n |-> n]
KeyErrorClose == [kind |-> "KeyError", key |-> "Close"]
NoDataAnyTicker == [kind |-> "NoDataAnyTicker"]
RiskFreeUnavailable == [kind |-> "RiskFreeUnavailable"]
AllMarketSourcesFailed(e, b) == [kind |-> "AllMarketSourcesFailed", primary |-> e, backup |-> b]

\* what a request to an external source raises: the message is the
\* source's own, it may or may not name what was asked for
TransportErrors(t) == {[kind |-> "Transport"], [kind |-> "Transport", ticker |-> t]}

(***************************************************************************)
(* The sample of tables the series source answers with.                    *)
(***************************************************************************)
Cols == {"Close", "Volume"}
Row(d, c, v) == [date |-> d, cells |-> [k \in Cols |-> IF k = "Close" THEN c ELSE v]]

\* n rows, the last one dated 0, with closes C(i) and volumes V(i)
MkTable(n, C(_), V(_)) ==
    [columns |-> Cols, rows |-> [i \in 1..n |-> Row(i - n, C(i), V(i))]]

Ramp(n) == MkTable(n, LAMBDA i : F(100 + i), LAMBDA i : F(1))
WithGaps(n) ==
    MkTable(n, LAMBDA i : F(100 + i), LAMBDA i : IF i \in {2, n} THEN NaN ELSE F(1))
WithZeros(n) ==
    MkTable(n, LAMBDA i : IF i \in {3, 4} THEN F(0) ELSE F(100 + i), LAMBDA i : F(1))
NoClose(n) ==
    [columns |-> {"Volume"},
     rows |-> [i \in 1..n |-> [date |-> i - n, cells |-> [k \in {"Volume"} |-> F(1)]]]]

StockTickers == {"AAA", "BBB", "CCC"}
MarketTickers == {"^GSPC", "VTI"}

StockTables ==
    {Ramp(0), Ramp(MinRows - 1), Ramp(MinRows), WithGaps(MinRows + 1), WithZeros(MinRows)}
MarketTables ==
    {Ramp(0), Ramp(MinRows), Ramp(MinMarketRows - 1), Ramp(MinMarketRows),
     WithGaps(MinMarketRows + 1), WithGaps(MinMarketRows + 2),
     WithZeros(MinMarketRows), NoClose(MinMarketRows)}

\* the outcomes of one yf.download(t, ...)
Downloads(t) ==
    {[kind |-> "table", table |-> T] :
        T \in (IF t \in MarketTickers THEN MarketTables ELSE StockTables)}
    \cup {[kind |-> "error", exc |-> e] : e \in TransportErrors(t)}

\* the clock, in days after the date of the last row the source knows
Nows == {0, FetchStaleDays, FetchStaleDays + 1, GateStaleDays, GateStaleDays + 1}

(***************************************************************************)
(* _validate_data_quality: the verdict, the message printed with it and    *)
(* the warnings.                                                           *)
(***************************************************************************)
Reject(m) == [ok |-> FALSE, message |-> m, warnings |-> {}]
Accept(w) == [ok |-> TRUE, message |-> "Data quality validated", warnings |-> w]

ExtremeMoves(returns) == Cardinality({i \in 1..Len(returns) : AbsGtHalf(returns[i])})

CloseVerdict(data) ==
    LET closes == SeriesDropna(CloseColumn(data))
        returns == SeriesDropna(pct_change(closes))
    IN  IF Len(closes) = 0 THEN "No valid closing prices"
        ELSE IF \E i \in 1..Len(closes) : LeZero(closes[i])
             THEN "Invalid prices (zero or negative)"
        \* extreme_moves > len(returns) * 0.02
        ELSE IF 100 * ExtremeMoves(returns) > 2 * Len(returns)
             THEN "Suspicious data - many extreme price movements"
        ELSE "ok"

\* a gate without the check of the number of rows
validate_no_row_check(data, now) ==
    IF empty(data) THEN Reject("No data")
    ELSE IF 10 * NullCount(data) > Len0(data) * Cardinality(data.columns)
         THEN Reject("Too many missing values")
    ELSE IF "Close" \in data.columns /\ CloseVerdict(data) # "ok"
         THEN Reject(CloseVerdict(data))
    ELSE Accept(IF DaysOld(data, now) > GateStaleDays THEN {"Stale data"} ELSE {})

\* a gate that rejects from 10% missing cells on
validate_missing_inclusive(data, now) ==
    IF empty(data) THEN Reject("No data")
    ELSE IF Len0(data) < MinRows THEN Reject("Insufficient data points")
    ELSE IF 10 * NullCount(data) >= Len0(data) * Cardinality(data.columns)
         THEN Reject("Too many missing values")
    ELSE IF "Close" \in data.columns /\ CloseVerdict(data) # "ok"
         THEN Reject(CloseVerdict(data))
    ELSE Accept(IF DaysOld(data, now) > GateStaleDays THEN {"Stale data"} ELSE {})

\* a gate that rejects stale tables
validate_stale_rejects(data, now) ==
    IF empty(data) THEN Reject("No data")
    ELSE IF Len0(data) < MinRows THEN Reject("Insufficient data points")
    ELSE IF 10 * NullCount(data) > Len0(data) * Cardinality(data.columns)
         THEN Reject("Too many missing values")
    ELSE IF "Close" \in data.columns /\ CloseVerdict(data) # "ok"
         THEN Reject(CloseVerdict(data))
    ELSE IF DaysOld(data, now) > GateStaleDays THEN Reject("Stale data")
    ELSE Accept({})

validate_data_quality(data, now) ==
    IF empty(data) THEN Reject("No data")
    ELSE IF Len0(data) < MinRows THEN Reject("Insufficient data points")
    \* missing_pct > 0.1
    ELSE IF 10 * NullCount(data) > Len0(data) * Cardinality(data.columns)
         THEN Reject("Too many missing values")
    ELSE IF "Close" \in data.columns /\ CloseVerdict(data) # "ok"
         THEN Reject(CloseVerdict(data))
    ELSE Accept(IF DaysOld(data, now) > GateStaleDays THEN {"Stale data"} ELSE {})

(***************************************************************************)
(* State.                                                                  *)
(***************************************************************************)
VARIABLES
    fred_api_key,     \* TRUE iff the pipeline was constructed with a FRED key
    op,               \* the public method called last: "none", "batch", "rf", "market", "health"
    pc,               \* where the running call stands; "idle" when none runs
    result,           \* how the call of op ended: returned value or raised exception
    tickers,          \* batch: the list of tickers
    validate,         \* batch: the validate argument
    idx,              \* batch: position of the for loop in tickers
    all_data,         \* batch: all_data
    failed_tickers,   \* batch: failed_tickers
    log,              \* batch: the line printed for each ticker processed
    tried,            \* chains: the strategies gone through, each with what it got
    primary_error,    \* market chain: the exception e of the primary strategy
    ticker,           \* fetcher: the ticker asked for
    attempt,          \* fetcher: the loop variable attempt
    calls,            \* fetcher: requests made to the source by this call
    src,              \* fetcher: what the last request to the source gave
    ret,              \* fetcher: how the call ended, until the caller takes it
    gate_data,        \* gate: the table a caller holds and hands to the gate
    gate_now,         \* gate: the clock, datetime.now()
    gate_calls,       \* gate: the calls made on gate_data, each with its verdict
    hpc,              \* health check: the probe it stands at; "none" when not running
    health_report     \* health check: health_report

batchVars == <<tickers, validate, idx, all_data, failed_tickers, log>>
chainVars == <<tried, primary_error>>
fetchVars == <<ticker, attempt, calls, src, ret>>
gateVars == <<gate_data, gate_now, gate_calls>>
healthVars == <<hpc, health_report>>
vars == <<fred_api_key, op, pc, result, batchVars, chainVars, fetchVars, gateVars, healthVars>>

None == [state |-> "none"]
Returned(v) == [state |-> "returned", value |-> v]
Raised(e) == [state |-> "raised", exc |-> e]
EmptyMap == [x \in {} |-> None]

\* m[k] = v on a dict
Put(m, k, v) == [x \in DOMAIN m \cup {k} |-> IF x = k THEN v ELSE m[x]]

(***************************************************************************)
(* _fetch_from_yfinance.                                                   *)
(***************************************************************************)
\* a try block that keeps the rows with a missing value
TryDownloadNoDrop(t, out) ==
    IF out.kind = "error" THEN Raised(out.exc)
    ELSE IF empty(out.table) THEN Raised(NoDataReturned(t))
    ELSE IF Len0(out.table) < MinRows
         THEN Raised(InsufficientDataPoints(t, Len0(out.table)))
         ELSE Returned(out.table)

\* the body of the try block for one answer of the source
TryDownload(t, out) ==
    IF out.kind = "error" THEN Raised(out.exc)
    ELSE IF empty(out.table) THEN Raised(NoDataReturned(t))
    ELSE LET stock_data == dropna(out.table)
         IN  IF Len0(stock_data) < MinRows
             THEN Raised(InsufficientDataPoints(t, Len0(stock_data)))
             ELSE Returned(stock_data)

\* a fetcher that gives up one attempt early
RetryAgainShort(a) == a < max_retries - 2

\* the except clause: go round again while attempt < max_retries - 1
RetryAgain(a) == a < max_retries - 1

\* the warning of the fetcher for a table it returns
FetchWarns(stock_data, now) == DaysOld(stock_data, now) > FetchStaleDays

\* the caller enters the fetcher
CallFetch(t) ==
    /\ ticker' = t
    /\ attempt' = 0
    /\ calls' = 0
    /\ src' = None
    /\ ret' = None
    /\ pc' = "fetch"

\* the caller has taken the outcome of the fetcher
LeaveFetch ==
    /\ ret' = None
    /\ src' = None
    /\ calls' = 0
    /\ attempt' = 0
    /\ UNCHANGED ticker

\* one iteration of the retry loop: one request and what follows it
FetchAttempt(out) ==
    /\ pc = "fetch"
    /\ attempt < max_retries
    /\ calls' = calls + 1
    /\ src' = out
    /\ LET r == TryDownload(ticker, out)
       IN  IF r.state = "returned"
           THEN /\ ret' = r
                /\ pc' = "fetch_ret"
                /\ UNCHANGED attempt
           ELSE IF RetryAgain(attempt)
           THEN /\ attempt' = attempt + 1
                /\ UNCHANGED <<ret, pc>>
           ELSE /\ ret' = r
                /\ pc' = "fetch_ret"
                /\ UNCHANGED attempt
    /\ UNCHANGED <<fred_api_key, gateVars, healthVars, op, result, batchVars, chainVars, ticker>>

(***************************************************************************)
(* fetch_real_time_stock_data.                                             *)
(***************************************************************************)
\* the argument: a single ticker as a string, or a list of tickers
RECURSIVE SeqsUpTo(_, _)
SeqsUpTo(S, n) ==
    IF n = 0 THEN {<<>>}
    ELSE LET shorter == SeqsUpTo(S, n - 1)
         IN  shorter \cup {Append(q, x) : q \in shorter, x \in S}

TickerLists == SeqsUpTo(StockTickers, MaxBatch)

\* is_str: isinstance(tickers, str)
fetch_real_time_stock_data(arg, is_str, v) ==
    /\ pc = "idle"
    /\ op = "none"
    /\ op' = "batch"
    /\ pc' = "batch_loop"
    /\ result' = None
    /\ tickers' = IF is_str THEN <<arg>> ELSE arg
    /\ validate' = v
    /\ idx' = 1
    /\ all_data' = EmptyMap
    /\ failed_tickers' = <<>>
    /\ log' = <<>>
    /\ UNCHANGED <<fred_api_key, gateVars, healthVars, chainVars, fetchVars>>

\* for ticker in tickers: ... self._fetch_from_yfinance(ticker, period)
BatchFetch ==
    /\ pc = "batch_loop"
    /\ op = "batch"
    /\ idx <= Len(tickers)
    /\ CallFetch(tickers[idx])
    /\ UNCHANGED <<fred_api_key, gateVars, healthVars, op, result, batchVars, chainVars>>

\* an acceptance that never asks the gate
TickerAcceptedNoGate(r, v, now) == r.state = "returned"

\* an acceptance that a failure earlier in the batch spoils
TickerAcceptedSticky(r, v, now) ==
    /\ r.state = "returned"
    /\ ~(v /\ ~validate_data_quality(r.value, now).ok)
    /\ failed_tickers = <<>>

\* the ticker is accepted: the fetch returned and the gate, if run, passed
TickerAccepted(r, v, now) ==
    /\ r.state = "returned"
    /\ ~(v /\ ~validate_data_quality(r.value, now).ok)

\* the rest of the loop body, after the fetcher returned or raised
BatchAfterFetch(now) ==
    /\ pc = "fetch_ret"
    /\ op = "batch"
    /\ IF TickerAccepted(ret, validate, now)
       THEN /\ all_data' = Put(all_data, ticker, ret.value)
            /\ log' = Append(log, [ticker |-> ticker, ok |-> TRUE])
            /\ UNCHANGED failed_tickers
       ELSE /\ failed_tickers' = Append(failed_tickers, ticker)
            /\ log' = Append(log, [ticker |-> ticker, ok |-> FALSE])
            /\ UNCHANGED all_data
    /\ idx' = idx + 1
    /\ pc' = "batch_loop"
    /\ LeaveFetch
    /\ UNCHANGED <<fred_api_key, gateVars, healthVars, op, result, tickers, validate, chainVars>>

\* a batch that raises as soon as one ticker failed
BatchFinishAnyFailure ==
    /\ pc = "batch_loop"
    /\ op = "batch"
    /\ idx > Len(tickers)
    /\ result' = IF failed_tickers # <<>> \/ DOMAIN all_data = {}
                 THEN Raised(NoDataAnyTicker)
                 ELSE Returned(all_data)
    /\ pc' = "idle"
    /\ UNCHANGED <<fred_api_key, gateVars, healthVars, op, batchVars, chainVars, fetchVars>>

\* after the loop: raise if all_data is empty, else return all_data
BatchFinish ==
    /\ pc = "batch_loop"
    /\ op = "batch"
    /\ idx > Len(tickers)
    /\ result' = IF DOMAIN all_data = {} THEN Raised(NoDataAnyTicker)
                 ELSE Returned(all_data)
    /\ pc' = "idle"
    /\ UNCHANGED <<fred_api_key, gateVars, healthVars, op, batchVars, chainVars, fetchVars>>

(***************************************************************************)
(* _fetch_from_fred.                                                       *)
(***************************************************************************)
MissingKey == [kind |-> "FredKeyRequired"]

\* the strings FRED gives as the value of an observation; "." is its
\* mark for a missing value
ObsValues == {".", "4.5", "0.00", "-0.05"}

\* float(obs['value'])
float(str) ==
    CASE str = "4.5" -> Frac(45, 10)
      [] str = "0.00" -> Frac(0, 100)
      [] str = "-0.05" -> Frac(0 - 5, 100)

\* the outcomes of one requests.get(...) followed by raise_for_status()
FredResponses(series_id) ==
    {[kind |-> "json", observations |-> q] : q \in SeqsUpTo(ObsValues, MaxObs)}
    \cup {[kind |-> "error", exc |-> e] : e \in TransportErrors(series_id)}

\* the first observation whose value is not '.', 0 if there is none
FirstValid(observations) ==
    IF \E i \in 1..Len(observations) : observations[i] # "."
    THEN CHOOSE i \in 1..Len(observations) :
            /\ observations[i] # "."
            /\ \A j \in 1..(i - 1) : observations[j] = "."
    ELSE 0

\* the part after the key check; Returned(None) stands for return None
fetch_from_fred(resp) ==
    IF resp.kind = "error" THEN Raised(resp.exc)
    ELSE IF FirstValid(resp.observations) = 0 THEN Returned(None)
    ELSE Returned(float(resp.observations[FirstValid(resp.observations)]))

(***************************************************************************)
(* get_real_time_risk_free_rate.                                           *)
(***************************************************************************)
NotRequested == [kind |-> "not requested"]

IrxCloses == {NaN, Frac(45, 10), F(0), Frac(0 - 1, 10)}
IrxTables ==
    {Ramp(0), NoClose(2)}
    \cup {MkTable(2, LAMBDA i : IF i = 1 THEN Frac(52, 10) ELSE c, LAMBDA i : F(1)) :
            c \in IrxCloses}
IrxDownloads ==
    {[kind |-> "table", table |-> T] : T \in IrxTables}
    \cup {[kind |-> "error", exc |-> e] : e \in TransportErrors("^IRX")}

\* what a FRED method of the chain makes of the fetch: the value it wins
\* with, or None when the chain goes on
FredMethod(resp) ==
    LET r == fetch_from_fred(resp)
    IN  IF r.state = "returned" /\ r.value # None THEN r.value ELSE None

\* what the Yahoo method makes of the answer to the download
IrxMethod(out) ==
    IF out.kind = "error" THEN None
    ELSE IF empty(out.table) THEN None
    ELSE IF "Close" \notin out.table.columns THEN None
    ELSE LET latest_rate == out.table.rows[Len0(out.table)].cells["Close"]
         IN  IF ~isnan(latest_rate) /\ GtZero(latest_rate) THEN latest_rate ELSE None

\* the chain enters its method 2
ToIrx == pc' = "rf_irx"

\* the chain enters its method 3, which without a key requests nothing
\* and leaves the chain to raise
ToFred1(tr) ==
    IF fred_api_key
    THEN /\ pc' = "rf_fred1"
         /\ tried' = tr
         /\ UNCHANGED result
    ELSE /\ pc' = "idle"
         /\ tried' = Append(tr, [strategy |-> "DGS1MO", resp |-> NotRequested])
         /\ result' = Raised(RiskFreeUnavailable)

get_real_time_risk_free_rate ==
    /\ pc = "idle"
    /\ op = "none"
    /\ op' = "rf"
    /\ result' = None
    /\ IF fred_api_key
       THEN /\ pc' = "rf_fred3"
            /\ tried' = <<>>
       ELSE /\ ToIrx
            /\ tried' = <<[strategy |-> "DGS3MO", resp |-> NotRequested]>>
    /\ UNCHANGED <<fred_api_key, gateVars, healthVars, batchVars, primary_error, fetchVars>>

\* method 1, FRED DGS3MO
RfFred3(resp) ==
    /\ pc = "rf_fred3"
    /\ tried' = Append(tried, [strategy |-> "DGS3MO", resp |-> resp])
    /\ IF FredMethod(resp) # None
       THEN /\ result' = Returned(DivInt(FredMethod(resp), 100))
            /\ pc' = "idle"
       ELSE /\ ToIrx
            /\ UNCHANGED result
    /\ UNCHANGED <<fred_api_key, gateVars, healthVars, op, batchVars, primary_error, fetchVars>>

\* method 2, Yahoo ^IRX
RfIrx(out) ==
    /\ pc = "rf_irx"
    /\ LET tr == Append(tried, [strategy |-> "^IRX", resp |-> out])
       IN  IF IrxMethod(out) # None
           THEN /\ result' = Returned(DivInt(IrxMethod(out), 100))
                /\ pc' = "idle"
                /\ tried' = tr
           ELSE ToFred1(tr)
    /\ UNCHANGED <<fred_api_key, gateVars, healthVars, op, batchVars, primary_error, fetchVars>>

\* method 3, FRED DGS1MO
RfFred1(resp) ==
    /\ pc = "rf_fred1"
    /\ tried' = Append(tried, [strategy |-> "DGS1MO", resp |-> resp])
    /\ result' = IF FredMethod(resp) # None
                 THEN Returned(DivInt(FredMethod(resp), 100))
                 ELSE Raised(RiskFreeUnavailable)
    /\ pc' = "idle"
    /\ UNCHANGED <<fred_api_key, gateVars, healthVars, op, batchVars, primary_error, fetchVars>>

(***************************************************************************)
(* get_real_time_market_data.                                              *)
(***************************************************************************)
\* data['Close'].pct_change().dropna().values, or the KeyError
Returns(data) ==
    IF "Close" \notin data.columns THEN Raised(KeyErrorClose)
    ELSE Returned(SeriesDropna(pct_change(CloseColumn(data))))

\* a primary strategy that wants more than MinMarketRows rows
PrimaryStrategyStrict(r) ==
    IF r.state = "raised" THEN r
    ELSE IF Len0(r.value) <= MinMarketRows
         THEN Raised(InsufficientMarketData(Len0(r.value)))
         ELSE Returns(r.value)

\* the try block of the primary strategy, from the outcome of the fetch on
PrimaryStrategy(r) ==
    IF r.state = "raised" THEN r
    ELSE IF Len0(r.value) < MinMarketRows
         THEN Raised(InsufficientMarketData(Len0(r.value)))
         ELSE Returns(r.value)

\* the try block of the backup strategy, from the outcome of the fetch on
BackupStrategy(r) == IF r.state = "raised" THEN r ELSE Returns(r.value)

get_real_time_market_data ==
    /\ pc = "idle"
    /\ op = "none"
    /\ op' = "market"
    /\ result' = None
    /\ tried' = <<>>
    /\ CallFetch("^GSPC")
    /\ UNCHANGED <<fred_api_key, gateVars, healthVars, batchVars, primary_error>>

MarketAfterPrimary ==
    /\ pc = "fetch_ret"
    /\ op = "market"
    /\ Len(tried) = 0
    /\ tried' = Append(tried, [strategy |-> "^GSPC", resp |-> ret])
    /\ LET r == PrimaryStrategy(ret)
       IN  IF r.state = "returned"
           THEN /\ result' = r
                /\ pc' = "idle"
                /\ LeaveFetch
                /\ UNCHANGED primary_error
           ELSE /\ primary_error' = r.exc
                /\ CallFetch("VTI")
                /\ UNCHANGED result
    /\ UNCHANGED <<fred_api_key, gateVars, healthVars, op, batchVars>>

MarketAfterBackup ==
    /\ pc = "fetch_ret"
    /\ op = "market"
    /\ Len(tried) = 1
    /\ tried' = Append(tried, [strategy |-> "VTI", resp |-> ret])
    /\ LET r == BackupStrategy(ret)
       IN  result' = IF r.state = "returned" THEN r
                     ELSE Raised(AllMarketSourcesFailed(primary_error, r.exc))
    /\ pc' = "idle"
    /\ LeaveFetch
    /\ UNCHANGED <<fred_api_key, gateVars, healthVars, op, batchVars, primary_error>>

(***************************************************************************)
(* The pipeline.                                                           *)
(***************************************************************************)
Init ==
    /\ fred_api_key \in BOOLEAN
    /\ op = "none"
    /\ pc = "idle"
    /\ result = None
    /\ tickers = <<>>
    /\ validate = TRUE
    /\ idx = 1
    /\ all_data = EmptyMap
    /\ failed_tickers = <<>>
    /\ log = <<>>
    /\ tried = <<>>
    /\ primary_error = None
    /\ ticker = "AAA"
    /\ attempt = 0
    /\ calls = 0
    /\ src = None
    /\ ret = None
    /\ gate_data = None
    /\ gate_now = 0
    /\ gate_calls = <<>>
    /\ hpc = "none"
    /\ health_report = None

\* the caller is done with the outcome of a call; the pipeline keeps nothing
\* of it (cache is never written), so it is again as it was constructed
Forget ==
    /\ pc = "idle"
    /\ op # "none"
    /\ op' = "none"
    /\ pc' = "idle"
    /\ result' = None
    /\ tickers' = <<>>
    /\ validate' = TRUE
    /\ idx' = 1
    /\ all_data' = EmptyMap
    /\ failed_tickers' = <<>>
    /\ log' = <<>>
    /\ tried' = <<>>
    /\ primary_error' = None
    /\ ticker' = "AAA"
    /\ attempt' = 0
    /\ calls' = 0
    /\ src' = None
    /\ ret' = None
    /\ UNCHANGED <<fred_api_key, gateVars, healthVars>>

Next ==
    \/ \E t \in StockTickers, v \in BOOLEAN : fetch_real_time_stock_data(t, TRUE, v)
    \/ \E q \in TickerLists, v \in BOOLEAN : fetch_real_time_stock_data(q, FALSE, v)
    \/ BatchFetch
    \/ \E out \in Downloads(ticker) : FetchAttempt(out)
    \/ \E now \in Nows : BatchAfterFetch(now)
    \/ BatchFinish
    \/ get_real_time_risk_free_rate
    \/ \E resp \in FredResponses("DGS3MO") : RfFred3(resp)
    \/ \E out \in IrxDownloads : RfIrx(out)
    \/ \E resp \in FredResponses("DGS1MO") : RfFred1(resp)
    \/ get_real_time_market_data
    \/ MarketAfterPrimary
    \/ MarketAfterBackup
    \/ Forget

Spec == Init /\ [][Next]_vars

(***************************************************************************)
(* The quality gate on its own: a caller holds one table and calls         *)
(* _validate_data_quality on it, again later, while the clock goes on.     *)
(***************************************************************************)
\* the first k rows lack the volume, or the close
MissingVolume(n, k) ==
    MkTable(n, LAMBDA i : F(100 + i), LAMBDA i : IF i <= k THEN NaN ELSE F(1))
MissingClose(n, k) ==
    MkTable(n, LAMBDA i : IF i <= k THEN NaN ELSE F(100 + i), LAMBDA i : F(1))

\* the close of row k is c
OneClose(n, k, c) == MkTable(n, LAMBDA i : IF i = k THEN c ELSE F(100 + i), LAMBDA i : F(1))

\* the close of row k is 0 and the first m rows lack the volume
ZeroAndMissing(n, k, m) ==
    MkTable(n, LAMBDA i : IF i = k THEN F(0) ELSE F(100 + i),
               LAMBDA i : IF i <= m THEN NaN ELSE F(1))

\* the close doubles at each row in S and is flat elsewhere
Doubling(n, S) ==
    MkTable(n, LAMBDA i : F(100 * 2 ^ Cardinality({k \in S : k <= i})), LAMBDA i : F(1))

\* the close falls to a quarter at each row in S and is flat elsewhere
Falling(n, S) ==
    MkTable(n, LAMBDA i : F(1600 \div (4 ^ Cardinality({k \in S : k <= i}))),
               LAMBDA i : F(1))

GateTables ==
    {Ramp(0), Ramp(1), Ramp(MinRows - 1), Ramp(MinRows), Ramp(100),
     NoClose(MinRows - 1), NoClose(MinRows),
     MissingVolume(MinRows - 1, MinRows - 1),
     MissingVolume(MinRows, 3), MissingVolume(MinRows, 4), MissingVolume(MinRows, 5),
     MissingClose(MinRows, 4), MissingClose(MinRows, 5), MissingClose(MinRows, MinRows),
     OneClose(MinRows - 1, 7, F(0)), OneClose(MinRows, 7, F(0)),
     OneClose(MinRows, MinRows, F(0 - 5)), OneClose(100, 1, F(0)),
     ZeroAndMissing(MinRows, 7, 4), ZeroAndMissing(MinRows, 7, 5),
     Doubling(MinRows, {5}), Doubling(51, {10}), Doubling(52, {10}),
     Doubling(100, {10}), Doubling(100, {10, 50}), Doubling(100, {10, 50, 90}),
     Falling(MinRows, {5}), Falling(100, {10}), Falling(100, {10, 50})}

InitGate ==
    /\ fred_api_key \in BOOLEAN
    /\ op = "none"
    /\ pc = "idle"
    /\ result = None
    /\ tickers = <<>>
    /\ validate = TRUE
    /\ idx = 1
    /\ all_data = EmptyMap
    /\ failed_tickers = <<>>
    /\ log = <<>>
    /\ tried = <<>>
    /\ primary_error = None
    /\ ticker = "AAA"
    /\ attempt = 0
    /\ calls = 0
    /\ src = None
    /\ ret = None
    /\ gate_data \in GateTables
    /\ gate_now \in Nows
    /\ gate_calls = <<>>
    /\ hpc = "none"
    /\ health_report = None

nonGateVars == <<fred_api_key, op, pc, result, batchVars, chainVars, fetchVars, healthVars>>

\* self._validate_data_quality(gate_data, ticker) at the time gate_now
GateCall ==
    /\ Len(gate_calls) < MaxGateCalls
    /\ gate_calls' = Append(gate_calls,
                            [now |-> gate_now,
                             verdict |-> validate_data_quality(gate_data, gate_now)])
    /\ UNCHANGED <<gate_data, gate_now, nonGateVars>>

\* time passes
Tick(now) ==
    /\ now > gate_now
    /\ gate_now' = now
    /\ UNCHANGED <<gate_data, gate_calls, nonGateVars>>

NextGate ==
    \/ GateCall
    \/ \E now \in Nows : Tick(now)

SpecGate == InitGate /\ [][NextGate]_vars

(***************************************************************************)
(* system_health_check.  A status string of the report is a record: the    *)
(* words that tell the statuses apart and what the string embeds.          *)
(***************************************************************************)
Healthy == [text |-> "HEALTHY"]
NoData == [text |-> "NO DATA"]
NoApiKey == [text |-> "NO API KEY"]
LimitedData == [text |-> "LIMITED DATA"]
Failed == [text |-> "FAILED"]
Error(e) == [text |-> "ERROR", exc |-> e]           \* f'ERROR: {str(e)}'
RateText(r) == [text |-> "RATE", rate |-> r]        \* f'{rf_rate:.4f} (...)'
ReturnsText(n) == [text |-> "RETURNS", n |-> n]     \* f'{len(market_returns)} returns'

\* 'HEALTHY' in status; no message of an exception here holds the word
ContainsHealthy(status) == status.text = "HEALTHY"

sample_tickers == <<"AAPL", "MSFT", "GOOGL">>

\* the report as the method first builds it
NewReport ==
    [data_sources |-> EmptyMap,
     sample_data_quality |-> [kind |-> "dict", items |-> EmptyMap],
     risk_free_rate |-> None,
     market_data |-> None,
     overall_status |-> "UNKNOWN"]

\* the answers to yf.download('AAPL', period='5d')
ProbeDownloads ==
    {[kind |-> "table", table |-> Ramp(0)], [kind |-> "table", table |-> Ramp(5)],
     [kind |-> "error", exc |-> [kind |-> "Transport", ticker |-> "AAPL"]]}

\* the answers of FRED with one observation at most (limit=1)
FredAtMostOne(series_id) ==
    {r \in FredResponses(series_id) : r.kind = "json" => Len(r.observations) <= 1}

\* the answers of the series source while the health check runs
HealthDownloads(t) ==
    {[kind |-> "table", table |-> T] :
        T \in (IF t \in MarketTickers
               THEN {Ramp(MinRows - 1), Ramp(MinRows), Ramp(MinMarketRows)}
               ELSE {Ramp(MinRows - 1), Ramp(MinRows), WithZeros(MinRows)})}
    \cup {[kind |-> "error", exc |-> [kind |-> "Transport", ticker |-> t]]}

\* the try block on yfinance
YfStatus(out) ==
    IF out.kind = "error" THEN Error(out.exc)
    ELSE IF ~empty(out.table) THEN Healthy ELSE NoData

\* the try block on FRED
FredStatus(resp) ==
    LET fred_test == fetch_from_fred(resp)
    IN  IF fred_test.state = "raised" THEN Error(fred_test.exc)
        ELSE IF fred_test.value # None THEN Healthy ELSE NoData

\* the try blocks on the two chains, from the outcome of the chain on
RfStatus(r) == IF r.state = "raised" THEN Error(r.exc) ELSE RateText(r.value)
MarketStatus(r) == IF r.state = "raised" THEN Error(r.exc) ELSE ReturnsText(Len(r.value))

\* the try block on the sample, from the outcome of the batch on
SampleQuality(r) ==
    IF r.state = "raised" THEN [kind |-> "str", status |-> Error(r.exc)]
    ELSE [kind |-> "dict",
          items |-> [t \in {sample_tickers[i] : i \in 1..Len(sample_tickers)} |->
                        IF t \in DOMAIN r.value
                        THEN IF Len0(r.value[t]) > 15 THEN Healthy ELSE LimitedData
                        ELSE Failed]]

\* healthy_sources, total_sources and the status they give
healthy_sources(data_sources) ==
    Cardinality({k \in DOMAIN data_sources : ContainsHealthy(data_sources[k])})
total_sources(data_sources) == Cardinality(DOMAIN data_sources)
OverallStatus(data_sources) ==
    IF healthy_sources(data_sources) = total_sources(data_sources) THEN "HEALTHY"
    ELSE IF healthy_sources(data_sources) > 0 THEN "DEGRADED"
    ELSE "CRITICAL"

system_health_check ==
    /\ hpc = "none"
    /\ pc = "idle"
    /\ op = "none"
    /\ hpc' = "yfinance"
    /\ health_report' = NewReport
    /\ UNCHANGED <<fred_api_key, gateVars, op, pc, result, batchVars, chainVars, fetchVars>>

\* the probe of yfinance and, without a key, the else branch of the FRED probe
HealthYf(out) ==
    /\ hpc = "yfinance"
    /\ src' = out
    /\ LET ds == Put(health_report.data_sources, "yfinance", YfStatus(out))
       IN  IF fred_api_key
           THEN /\ health_report' = [health_report EXCEPT !.data_sources = ds]
                /\ hpc' = "fred"
           ELSE /\ health_report' =
                      [health_report EXCEPT !.data_sources = Put(ds, "fred", NoApiKey)]
                /\ hpc' = "rf"
    /\ UNCHANGED <<fred_api_key, gateVars, op, pc, result, batchVars, chainVars,
                   ticker, attempt, calls, ret>>

\* the probe of FRED
HealthFred(resp) ==
    /\ hpc = "fred"
    /\ tried' = <<[strategy |-> "DGS3MO", resp |-> resp]>>
    /\ health_report' = [health_report EXCEPT
                            !.data_sources = Put(@, "fred", FredStatus(resp))]
    /\ hpc' = "rf"
    /\ UNCHANGED <<fred_api_key, gateVars, op, pc, result, batchVars, primary_error, fetchVars>>

\* the call of a chain or of the batch is over: nothing of it stays but
\* what the report says
CallOver ==
    /\ op' = "none"
    /\ pc' = "idle"
    /\ tickers' = <<>>
    /\ validate' = TRUE
    /\ idx' = 1
    /\ all_data' = EmptyMap
    /\ failed_tickers' = <<>>
    /\ log' = <<>>
    /\ tried' = <<>>
    /\ primary_error' = None
    /\ ticker' = "AAA"
    /\ attempt' = 0
    /\ calls' = 0
    /\ src' = None
    /\ ret' = None

HealthAfterRf ==
    /\ hpc = "rf"
    /\ op = "rf"
    /\ pc = "idle"
    /\ health_report' = [health_report EXCEPT !.risk_free_rate = RfStatus(result)]
    /\ hpc' = "market"
    /\ result' = None
    /\ CallOver
    /\ UNCHANGED <<fred_api_key, gateVars>>

HealthAfterMarket ==
    /\ hpc = "market"
    /\ op = "market"
    /\ pc = "idle"
    /\ health_report' = [health_report EXCEPT !.market_data = MarketStatus(result)]
    /\ hpc' = "sample"
    /\ result' = None
    /\ CallOver
    /\ UNCHANGED <<fred_api_key, gateVars>>

\* a health check that lets the error of the batch through
HealthAfterSampleUncaught ==
    /\ hpc = "sample"
    /\ op = "batch"
    /\ pc = "idle"
    /\ health_report' =
          IF result.state = "raised" THEN health_report
          ELSE [health_report EXCEPT
                   !.sample_data_quality = SampleQuality(result),
                   !.overall_status = OverallStatus(health_report.data_sources)]
    /\ hpc' = "done"
    /\ result' = IF result.state = "raised" THEN result ELSE Returned(health_report')
    /\ CallOver
    /\ UNCHANGED <<fred_api_key, gateVars>>

\* the sample is rendered, the overall status worked out, the report returned
HealthAfterSample ==
    /\ hpc = "sample"
    /\ op = "batch"
    /\ pc = "idle"
    /\ health_report' = [health_report EXCEPT
                            !.sample_data_quality = SampleQuality(result),
                            !.overall_status = OverallStatus(health_report.data_sources)]
    /\ hpc' = "done"
    /\ result' = Returned(health_report')
    /\ CallOver
    /\ UNCHANGED <<fred_api_key, gateVars>>

NextHealth ==
    \/ system_health_check
    \/ \E out \in ProbeDownloads : HealthYf(out)
    \/ \E resp \in FredAtMostOne("DGS3MO") : HealthFred(resp)
    \/ hpc = "rf" /\ get_real_time_risk_free_rate
    \/ \E resp \in FredAtMostOne("DGS3MO") : RfFred3(resp)
    \/ \E out \in IrxDownloads : RfIrx(out)
    \/ \E resp \in FredAtMostOne("DGS1MO") : RfFred1(resp)
    \/ HealthAfterRf
    \/ hpc = "market" /\ get_real_time_market_data
    \/ \E out \in HealthDownloads(ticker) : FetchAttempt(out)
    \/ MarketAfterPrimary
    \/ MarketAfterBackup
    \/ HealthAfterMarket
    \/ hpc = "sample" /\ fetch_real_time_stock_data(sample_tickers, FALSE, TRUE)
    \/ BatchFetch
    \/ \E now \in Nows : BatchAfterFetch(now)
    \/ BatchFinish
    \/ HealthAfterSample

SpecHealth == Init /\ [][NextHealth]_vars

(***************************************************************************)
(* The retrying fetcher.                                                   *)
(***************************************************************************)
\* an answer of the source the fetcher accepts: a table that keeps at
\* least 20 rows once the rows with a missing cell are gone
CompleteRows(T) == {i \in 1..Len(T.rows) : \A c \in T.columns : ~isnan(T.rows[i].cells[c])}
AcceptableAnswer(out) ==
    /\ out.kind = "table"
    /\ out.table.columns # {}
    /\ Cardinality(CompleteRows(out.table)) >= 20

\* C1: one call of the fetcher makes at most 3 requests; it goes on to the
\* next request only after an answer that is not acceptable, it ends on the
\* first acceptable answer and returns that table (without its incomplete
\* rows), and it gives up only after the 3rd request.
C1_AtMostThreeAttempts ==
    /\ calls <= 3
    /\ (pc = "fetch" /\ calls > 0) => ~AcceptableAnswer(src)
    /\ pc = "fetch_ret" =>
        /\ calls >= 1
        /\ AcceptableAnswer(src) =>
            /\ ret.state = "returned"
            /\ ret.value.columns = src.table.columns
            /\ Len(ret.value.rows) = Cardinality(CompleteRows(src.table))
            /\ \A i \in 1..Len(ret.value.rows) :
                    \E j \in CompleteRows(src.table) : ret.value.rows[i] = src.table.rows[j]
        /\ ~AcceptableAnswer(src) => (ret.state = "raised" /\ calls = 3)

\* two failures, then a table that is returned
C1_Witness ==
    /\ pc = "fetch_ret"
    /\ calls = 3
    /\ ret.state = "returned"
    /\ Len(ret.value.rows) < Len(src.table.rows)

\* C2: when all 3 attempts fail, the exception that leaves the fetcher is
\* the one of the last attempt and it carries the ticker and the number of
\* attempts made, 3.
C2_ExhaustionTagged ==
    (pc = "fetch_ret" /\ ret.state = "raised") =>
        /\ calls = 3
        /\ ret = TryDownload(ticker, src)
        /\ "ticker" \in DOMAIN ret.exc
        /\ ret.exc.ticker = ticker
        /\ "attempts" \in DOMAIN ret.exc
        /\ ret.exc.attempts = 3

(***************************************************************************)
(* The risk-free-rate chain.                                               *)
(***************************************************************************)
RfOrder == <<"DGS3MO", "^IRX", "DGS1MO">>

\* the number a strategy of the chain got from its source, None if it got
\* none: the first observation FRED did not mark missing, the last close of
\* the ^IRX table
StrategyValue(e) ==
    IF e.resp = NotRequested \/ e.resp.kind = "error" THEN None
    ELSE IF e.strategy = "^IRX"
    THEN (IF Len(e.resp.table.rows) = 0 \/ "Close" \notin e.resp.table.columns THEN None
          ELSE e.resp.table.rows[Len(e.resp.table.rows)].cells["Close"])
    ELSE (IF \A i \in 1..Len(e.resp.observations) : e.resp.observations[i] = "." THEN None
          ELSE LET first == CHOOSE i \in 1..Len(e.resp.observations) :
                                /\ e.resp.observations[i] # "."
                                /\ \A j \in 1..(i - 1) : e.resp.observations[j] = "."
               IN  float(e.resp.observations[first]))

\* usable: not null, not nan, strictly positive
Usable(v) == v # None /\ ~isnan(v) /\ v.num > 0 /\ v.den >= 0

RfRunning == op = "rf"
RfEnded == op = "rf" /\ pc = "idle"

\* C3: the strategies are gone through in the order DGS3MO, ^IRX, DGS1MO;
\* a strategy that gets a usable value ends the chain at once, nothing is
\* requested after it, and the rate returned is the value of the last
\* strategy gone through divided by 100.
C3_OrderAndFirstWins ==
    RfRunning =>
        /\ Len(tried) <= 3
        /\ \A i \in 1..Len(tried) : tried[i].strategy = RfOrder[i]
        /\ \A i \in 1..Len(tried) :
              Usable(StrategyValue(tried[i])) =>
                  /\ i = Len(tried)
                  /\ pc = "idle"
                  /\ result.state = "returned"
        /\ (pc = "idle" /\ result.state = "returned") =>
              /\ Len(tried) >= 1
              /\ StrategyValue(tried[Len(tried)]) # None
              /\ LET v == StrategyValue(tried[Len(tried)])
                 IN  /\ result.value.den = 0 <=> v.den = 0
                     /\ result.value.num * 100 * v.den = v.num * result.value.den
                     /\ Sign(result.value.num) = Sign(v.num)

\* no key, ^IRX closes at 4.5: the rate is 0.045 and DGS1MO is never asked
C3_Witness ==
    /\ RfEnded
    /\ ~fred_api_key
    /\ Len(tried) = 2
    /\ tried[1].resp = NotRequested
    /\ result.state = "returned"
    /\ FloatEq(result.value, Frac(45, 1000))

\* C4: the rate the chain returns is a strictly positive number, whichever
\* strategy won: a null, nan, zero or negative value never wins.
C4_WinningValueUsable ==
    (RfEnded /\ result.state = "returned") =>
        /\ Usable(StrategyValue(tried[Len(tried)]))
        /\ Usable(result.value)

(***************************************************************************)
(* Both chains.                                                            *)
(***************************************************************************)
MarketEnded == op = "market" /\ pc = "idle"

\* the primary and the backup strategy of the market chain got a table
\* they can use: the fetch returned, for the primary with 50 rows or more
MarketUsable(e) ==
    /\ e.resp.state = "returned"
    /\ "Close" \in e.resp.value.columns
    /\ e.strategy = "^GSPC" => Len(e.resp.value.rows) >= 50

ChainExhausted(e) == e.kind \in {"RiskFreeUnavailable", "AllMarketSourcesFailed"}

\* C5: in both chains the failure of one strategy never reaches the caller
\* and the next strategy is gone to; the chain raises only when every
\* strategy was gone through and failed, and what it returns comes from a
\* strategy that got something usable.
C5_StrategyFailuresRecovered ==
    /\ RfEnded =>
        /\ result.state = "raised" =>
            /\ ChainExhausted(result.exc)
            /\ Len(tried) = 3
            /\ \A i \in 1..3 : ~Usable(StrategyValue(tried[i]))
        /\ \A i \in 1..Len(tried) :
              ~Usable(StrategyValue(tried[i])) => (i < Len(tried) \/ result.state = "raised")
    /\ MarketEnded =>
        /\ result.state = "raised" =>
            /\ ChainExhausted(result.exc)
            /\ Len(tried) = 2
            /\ \A i \in 1..2 : ~MarketUsable(tried[i])
        /\ \A i \in 1..Len(tried) :
              ~MarketUsable(tried[i]) => (i < Len(tried) \/ result.state = "raised")

\* C6: a chain that is exhausted raises one exception that says all the
\* sources failed, and the exception holds a failure reason for each of
\* the strategies gone through.
C6_ExhaustionAggregated ==
    ((RfEnded \/ MarketEnded) /\ result.state = "raised") =>
        /\ ChainExhausted(result.exc)
        /\ Cardinality(DOMAIN result.exc \ {"kind"}) >= Len(tried)

(***************************************************************************)
(* The market chain.                                                       *)
(***************************************************************************)
\* r is cur / prev - 1, for a prev that is not zero
IsChange(r, prev, cur) ==
    /\ r.den > 0
    /\ r.num * prev.num * cur.den = r.den * (cur.num * prev.den - prev.num * cur.den)

\* the table the chain made its returns from
AcceptedTable == tried[Len(tried)].resp.value
ZeroPairs(closes) == {i \in 2..Len(closes) : closes[i - 1].num = 0 /\ closes[i].num = 0}

MarketOrder ==
    /\ Len(tried) <= 2
    /\ \A i \in 1..Len(tried) : tried[i].strategy = <<"^GSPC", "VTI">>[i]
    /\ pc = "idle" => Len(tried) >= 1
    /\ (pc = "idle" /\ (tried[1].resp.state = "raised" \/ Len(tried[1].resp.value.rows) < 50))
          => Len(tried) = 2

\* C7 as stated: ^GSPC first and VTI second; VTI is fetched when the fetch
\* of ^GSPC fails or gives fewer than 50 rows, and never when it gives 50
\* rows or more; the returns are the changes of the closes from row to row
\* without the first, one fewer than the rows of the table.
C7_Original ==
    op = "market" =>
        /\ MarketOrder
        /\ (pc = "idle" /\ tried[1].resp.state = "returned"
              /\ Len(tried[1].resp.value.rows) >= 50) => Len(tried) = 1
        /\ (pc = "idle" /\ result.state = "returned") =>
              Len(result.value) = Len(AcceptedTable.rows) - 1

\* C7 amended: VTI is never fetched when ^GSPC gives 50 rows or more with a
\* Close column; the returns are the changes of the closes from row to row
\* without the undefined ones, which are the first and every change from a
\* zero close to a zero close, so they are one fewer than the rows of the
\* table when no two closes in a row are zero, and fewer otherwise.
C7_MarketChain ==
    op = "market" =>
        /\ MarketOrder
        /\ (pc = "idle" /\ tried[1].resp.state = "returned"
              /\ Len(tried[1].resp.value.rows) >= 50
              /\ "Close" \in tried[1].resp.value.columns) => Len(tried) = 1
        /\ (pc = "idle" /\ result.state = "returned") =>
              LET closes == [i \in 1..Len(AcceptedTable.rows) |->
                                AcceptedTable.rows[i].cells["Close"]]
              IN  /\ Len(result.value) = Len(closes) - 1 - Cardinality(ZeroPairs(closes))
                  /\ \A i \in 1..Len(result.value) : ~isnan(result.value[i])
                  /\ (\A i \in 1..Len(closes) : closes[i].num # 0) =>
                        \A i \in 1..Len(result.value) :
                            IsChange(result.value[i], closes[i], closes[i + 1])

\* the primary gave too few rows and the returns come from VTI
C7_Witness ==
    /\ MarketEnded
    /\ Len(tried) = 2
    /\ tried[1].resp.state = "returned"
    /\ result.state = "returned"
    /\ Len(result.value) = Len(AcceptedTable.rows) - 1
    /\ Len(result.value) >= 49

(***************************************************************************)
(* The batch fetch.                                                        *)
(***************************************************************************)
GateOk(data) == \A now \in Nows : validate_data_quality(data, now).ok

\* the tickers of the entries of lg that failed, in order
RECURSIVE FailedOf(_)
FailedOf(lg) ==
    IF lg = <<>> THEN <<>>
    ELSE IF lg[1].ok THEN FailedOf(Tail(lg))
         ELSE <<lg[1].ticker>> \o FailedOf(Tail(lg))

BatchProgress ==
    op = "batch" =>
        /\ idx = Len(log) + 1
        /\ Len(log) <= Len(tickers)
        /\ \A i \in 1..Len(log) : log[i].ticker = tickers[i]
        /\ failed_tickers = FailedOf(log)
        /\ DOMAIN all_data = {log[i].ticker : i \in {j \in 1..Len(log) : log[j].ok}}
        /\ pc = "idle" => Len(log) = Len(tickers)

\* what the batch does with the outcome of one fetch
BatchStep ==
    (op = "batch" /\ pc = "fetch_ret") =>
        /\ pc' = "batch_loop"
        /\ tickers' = tickers
        /\ IF ret.state = "returned" /\ (validate => GateOk(ret.value))
           THEN /\ log' = Append(log, [ticker |-> ticker, ok |-> TRUE])
                /\ all_data' = [t \in DOMAIN all_data \cup {ticker} |->
                                   IF t = ticker THEN ret.value ELSE all_data[t]]
                /\ failed_tickers' = failed_tickers
           ELSE /\ log' = Append(log, [ticker |-> ticker, ok |-> FALSE])
                /\ all_data' = all_data
                /\ failed_tickers' = Append(failed_tickers, ticker)

\* C8: a ticker that fails never ends the batch: the tickers are gone
\* through one after the other in the order of the list, all of them, a
\* failing one is put on the failed list, and what is recorded for a
\* ticker comes from its own fetch and its own gate verdict and leaves
\* what was recorded for the others as it was.
C8_FailureNeverAborts == []BatchProgress /\ [][BatchStep]_vars

\* the first ticker failed, the second was accepted after it
C8_Witness ==
    /\ op = "batch"
    /\ pc = "idle"
    /\ Len(tickers) = 3
    /\ ~log[1].ok
    /\ log[2].ok
    /\ ~log[3].ok
    /\ tickers[1] # tickers[2] /\ tickers[2] # tickers[3] /\ tickers[1] # tickers[3]

BatchEnded == op = "batch" /\ pc = "idle"

\* C9: the batch raises the no-data error exactly when, all tickers gone
\* through, none was accepted; with one accepted ticker or more it returns.
C9_RaisesIffNoneAccepted ==
    BatchEnded =>
        /\ result.state \in {"raised", "returned"}
        /\ result.state = "raised" <=> (\A i \in 1..Len(tickers) : ~log[i].ok)
        /\ result.state = "raised" <=> DOMAIN all_data = {}
        /\ result.state = "raised" => result.exc = NoDataAnyTicker
        /\ Len(log) = Len(tickers)

\* two tickers, both failed, the call raised
C9_Witness ==
    /\ BatchEnded
    /\ Len(tickers) = 2
    /\ tickers[1] # tickers[2]
    /\ Len(failed_tickers) = 2
    /\ result.state = "raised"


\* C10: when some tickers were accepted and some failed, the call returns
\* the mapping of the accepted tickers together with the list of the
\* failed ones.
C10_ReturnsMappingAndFailed ==
    (BatchEnded /\ DOMAIN all_data # {} /\ failed_tickers # <<>>) =>
        /\ result.state = "returned"
        /\ DOMAIN result.value = {"accepted", "failed"}
        /\ result.value.accepted = all_data
        /\ result.value.failed = failed_tickers

\* what the batch does with a table the fetcher returned: with validate
\* the verdict of the gate decides, without it the table is accepted
GateDecides ==
    (op = "batch" /\ pc = "fetch_ret") =>
        IF ret.state = "raised" \/ (validate /\ ~GateOk(ret.value))
        THEN /\ failed_tickers' = Append(failed_tickers, ticker)
             /\ all_data' = all_data
        ELSE /\ failed_tickers' = failed_tickers
             /\ DOMAIN all_data' = DOMAIN all_data \cup {ticker}
             /\ all_data'[ticker] = ret.value
             /\ \A t \in DOMAIN all_data \ {ticker} : all_data'[t] = all_data[t]

AcceptedPassGate ==
    (op = "batch" /\ validate) => \A t \in DOMAIN all_data : GateOk(all_data[t])

\* C11: with validate the gate is run on every table the fetcher returned
\* and a reject makes that ticker, and no other, a failed ticker just as
\* an exception of the fetcher does; without validate the gate is not
\* run and every table the fetcher returned is accepted.
C11_GateOnlyWhenValidate == []AcceptedPassGate /\ [][GateDecides]_vars

\* without validate, a table the gate rejects is in the mapping returned
C11_Witness ==
    /\ BatchEnded
    /\ ~validate
    /\ result.state = "returned"
    /\ \E t \in DOMAIN all_data : ~GateOk(all_data[t])

(***************************************************************************)
(* The quality gate.                                                       *)
(***************************************************************************)
GateRows == Len(gate_data.rows)
GateCells == GateRows * Cardinality(gate_data.columns)
MissingCells ==
    Cardinality({rc \in (1..GateRows) \X gate_data.columns :
                    gate_data.rows[rc[1]].cells[rc[2]] = NaN})
HasClose == "Close" \in gate_data.columns

\* the closes that are not missing, in the order of the rows
GateCloses ==
    LET all == [i \in 1..GateRows |-> gate_data.rows[i].cells["Close"]]
    IN  SelectSeq(all, LAMBDA x : x # NaN)
HasBadClose ==
    /\ HasClose
    /\ \E i \in 1..GateRows :
          LET c == gate_data.rows[i].cells["Close"] IN c # NaN /\ c.num <= 0

\* the changes of more than 50% up or down between closes that follow each
\* other, for closes that are all positive whole numbers
BigMoves ==
    Cardinality({i \in 2..Len(GateCloses) :
        2 * Abs(GateCloses[i].num - GateCloses[i - 1].num) > GateCloses[i - 1].num})
Changes == Len(GateCloses) - 1

\* the checks before the one of the extreme moves pass
EarlierChecksPass ==
    /\ GateRows >= 20
    /\ 10 * MissingCells <= GateCells
    /\ HasClose
    /\ Len(GateCloses) > 0
    /\ ~HasBadClose

Verdicts == {gate_calls[i].verdict : i \in 1..Len(gate_calls)}

\* C12 as stated: every table with fewer than 20 rows is rejected with the
\* reason insufficient data points.
C12_Original ==
    GateRows < 20 =>
        \A v \in Verdicts : ~v.ok /\ v.message = "Insufficient data points"

\* C12 amended: every table with fewer than 20 rows is rejected, with the
\* reason insufficient data points when it has a row and with the reason
\* no data when it has none, whatever its cells hold.
C12_ShortTablesRejected ==
    GateRows < 20 =>
        \A v \in Verdicts :
            /\ ~v.ok
            /\ GateRows >= 1 => v.message = "Insufficient data points"
            /\ GateRows = 0 => v.message = "No data"

\* 19 rows, none of them with a fault, rejected
C12_Witness ==
    /\ GateRows = 19
    /\ MissingCells = 0
    /\ HasClose
    /\ \E v \in Verdicts : ~v.ok

\* C13: a table of 20 rows or more is rejected for missing values exactly
\* when its missing cells are more than 10% of rows x fields; at 10% sharp
\* this check lets it pass.
C13_MissingAboveTenPercent ==
    GateRows >= 20 =>
        \A v \in Verdicts :
            (v.message = "Too many missing values") <=> (10 * MissingCells > GateCells)

\* 4 cells of 40 missing, accepted
C13_Witness ==
    /\ GateRows >= 20
    /\ MissingCells > 0
    /\ 10 * MissingCells = GateCells
    /\ \E v \in Verdicts : v.ok

\* C14 as stated: every table with a close that is zero or negative is
\* rejected with the reason invalid prices.
C14_Original ==
    HasBadClose =>
        \A v \in Verdicts : ~v.ok /\ v.message = "Invalid prices (zero or negative)"

\* C14 amended: every table with a close that is zero or negative is
\* rejected; the reason is invalid prices when the table has 20 rows or
\* more and at most 10% of its cells missing, else it is the reason of the
\* check of the rows or of the missing cells, which come first.
C14_BadCloseRejected ==
    HasBadClose =>
        \A v \in Verdicts :
            /\ ~v.ok
            /\ (GateRows >= 20 /\ 10 * MissingCells <= GateCells)
                  => v.message = "Invalid prices (zero or negative)"
            /\ GateRows < 20 => v.message = "Insufficient data points"
            /\ (GateRows >= 20 /\ 10 * MissingCells > GateCells)
                  => v.message = "Too many missing values"

\* one close of zero among 100 rows that are fine otherwise, rejected
C14_Witness ==
    /\ HasBadClose
    /\ GateRows = 100
    /\ MissingCells = 0
    /\ \E v \in Verdicts : v.message = "Invalid prices (zero or negative)"

\* C15: a table with closes that passes the checks before is rejected for
\* extreme moves exactly when the changes of more than 50% are more than
\* 0.02 times the changes: of 99 changes, 3 are too many and 1 is not.
C15_ExtremeMoves ==
    EarlierChecksPass =>
        \A v \in Verdicts :
            /\ (v.message = "Suspicious data - many extreme price movements")
                  <=> (100 * BigMoves > 2 * Changes)
            /\ (Changes = 99 /\ BigMoves = 3) => ~v.ok
            /\ (Changes = 99 /\ BigMoves = 1) => v.ok

\* 100 rows with 3 extreme moves, rejected
C15_Witness ==
    /\ EarlierChecksPass
    /\ GateRows = 100
    /\ BigMoves = 3
    /\ \E v \in Verdicts : ~v.ok

\* C16: a stale table is not rejected for being stale: the verdict on a
\* table is the same at every time and on every call, and a last row of
\* more than 10 days ago only adds a warning.
C16_StalenessOnlyWarns ==
    /\ \A i, j \in 1..Len(gate_calls) :
          /\ gate_calls[i].verdict.ok = gate_calls[j].verdict.ok
          /\ gate_calls[i].verdict.message = gate_calls[j].verdict.message
          /\ gate_calls[i].now = gate_calls[j].now
                => gate_calls[i].verdict = gate_calls[j].verdict
    /\ \A i \in 1..Len(gate_calls) :
          gate_calls[i].verdict.ok =>
              (("Stale data" \in gate_calls[i].verdict.warnings)
                  <=> (gate_calls[i].now - gate_data.rows[GateRows].date > 10))

\* accepted when fresh, accepted again with a warning 11 days later
C16_Witness ==
    /\ Len(gate_calls) = 2
    /\ gate_calls[1].now = 0
    /\ gate_calls[2].now = 11
    /\ gate_calls[1].verdict.ok
    /\ gate_calls[2].verdict.ok
    /\ gate_calls[2].verdict.warnings # {}

(***************************************************************************)
(* The batch and the fetcher, again.                                       *)
(***************************************************************************)
InputSet == {tickers[i] : i \in 1..Len(tickers)}
FailedSet == {failed_tickers[i] : i \in 1..Len(failed_tickers)}
Repeated == \E i, j \in 1..Len(tickers) : i # j /\ tickers[i] = tickers[j]

\* C19: after a batch, the keys of the accepted mapping and the failed list
\* are disjoint and together they are the set of the input tickers, also
\* for a list that repeats a ticker.
C19_Partition ==
    BatchEnded =>
        /\ DOMAIN all_data \cap FailedSet = {}
        /\ DOMAIN all_data \cup FailedSet = InputSet

\* what holds of C19: the two cover the input always, and they are
\* disjoint for a list without a repeated ticker
C19_CoverAndDisjointWithoutRepeat ==
    BatchEnded =>
        /\ DOMAIN all_data \cup FailedSet = InputSet
        /\ ~Repeated => DOMAIN all_data \cap FailedSet = {}

NoMissingCell(T) == \A i \in 1..Len(T.rows) : \A c \in T.columns : T.rows[i].cells[c] # NaN
EarlyGateMessages == {"No data", "Insufficient data points", "Too many missing values"}
FetcherTable(T) ==
    /\ Len(T.rows) >= 20
    /\ NoMissingCell(T)
    /\ \A now \in Nows : validate_data_quality(T, now).message \notin EarlyGateMessages

\* C20: a table the fetcher returns has 20 rows or more and no missing
\* cell, so has every table of the mapping of a batch, with validate true
\* or false, and the gate never rejects such a table for no data, too few
\* rows or too many missing values.
C20_FetcherTables ==
    /\ (pc = "fetch_ret" /\ ret.state = "returned") => FetcherTable(ret.value)
    /\ op = "batch" => \A t \in DOMAIN all_data : FetcherTable(all_data[t])
    /\ (BatchEnded /\ result.state = "returned") =>
          \A t \in DOMAIN result.value : FetcherTable(result.value[t])

\* the fetcher has returned a table that lost its rows with a missing cell
C20_Witness ==
    /\ pc = "fetch_ret"
    /\ ret.state = "returned"
    /\ src.kind = "table"
    /\ ~NoMissingCell(src.table)
    /\ Len(src.table.rows) > Len(ret.value.rows)

(***************************************************************************)
(* The health check.                                                       *)
(***************************************************************************)
HealthEnded == hpc = "done"
SampleSet == {sample_tickers[i] : i \in 1..Len(sample_tickers)}
IsError(status) == status.text = "ERROR"

\* the report is whole: every section holds a status
ReportWhole(report) ==
    /\ DOMAIN report.data_sources = {"yfinance", "fred"}
    /\ \A k \in DOMAIN report.data_sources :
          report.data_sources[k].text \in {"HEALTHY", "NO DATA", "NO API KEY", "ERROR"}
    /\ report.risk_free_rate # None
    /\ report.risk_free_rate.text \in {"RATE", "ERROR"}
    /\ report.market_data # None
    /\ report.market_data.text \in {"RETURNS", "ERROR"}
    /\ \/ /\ report.sample_data_quality.kind = "dict"
          /\ DOMAIN report.sample_data_quality.items = SampleSet
       \/ /\ report.sample_data_quality.kind = "str"
          /\ IsError(report.sample_data_quality.status)
    /\ report.overall_status \in {"HEALTHY", "DEGRADED", "CRITICAL"}

HealthReturns ==
    HealthEnded =>
        /\ result.state = "returned"
        /\ result.value = health_report
        /\ ReportWhole(health_report)

\* the probes run one after the other whatever the one before came to;
\* FRED is left out only for want of a key
ProbeOrder ==
    hpc' # hpc =>
        <<hpc, hpc'>> \in
            {<<"none", "yfinance">>, <<"fred", "rf">>, <<"rf", "market">>,
             <<"market", "sample">>, <<"sample", "done">>,
             IF fred_api_key THEN <<"yfinance", "fred">> ELSE <<"yfinance", "rf">>}

\* a probe that ends with an exception leaves its message in the report
FailureRendered ==
    /\ (hpc = "yfinance" /\ hpc' # hpc /\ src'.kind = "error")
          => health_report'.data_sources["yfinance"] = Error(src'.exc)
    /\ (hpc = "fred" /\ hpc' # hpc /\ tried'[1].resp.kind = "error")
          => health_report'.data_sources["fred"] = Error(tried'[1].resp.exc)
    /\ (hpc = "rf" /\ hpc' # hpc /\ result.state = "raised")
          => health_report'.risk_free_rate = Error(result.exc)
    /\ (hpc = "market" /\ hpc' # hpc /\ result.state = "raised")
          => health_report'.market_data = Error(result.exc)
    /\ (hpc = "sample" /\ hpc' # hpc /\ result.state = "raised")
          => /\ health_report'.sample_data_quality.kind = "str"
             /\ health_report'.sample_data_quality.status = Error(result.exc)
             /\ result'.state = "returned"

\* C17: the health check never raises: whatever probes fail, the chains
\* and the batch with their fatal errors among them, it goes through all
\* its probes, puts each failure in the report as a status string and
\* returns a report with the overall status healthy, degraded or critical.
C17_HealthNeverRaises == []HealthReturns /\ [][ProbeOrder /\ FailureRendered]_vars

\* every probe has failed, both chains and the batch with their fatal
\* errors, and the report is returned
C17_Witness ==
    /\ HealthEnded
    /\ fred_api_key
    /\ result.state = "returned"
    /\ IsError(health_report.data_sources["yfinance"])
    /\ IsError(health_report.data_sources["fred"])
    /\ health_report.risk_free_rate = Error(RiskFreeUnavailable)
    /\ IsError(health_report.market_data)
    /\ health_report.market_data.exc.kind = "AllMarketSourcesFailed"
    /\ health_report.sample_data_quality.kind = "str"
    /\ health_report.sample_data_quality.status = Error(NoDataAnyTicker)
    /\ health_report.overall_status = "CRITICAL"

\* the sources that were checked, and those of them that succeeded
Checked == {"yfinance"} \cup (IF fred_api_key THEN {"fred"} ELSE {})
Succeeded == {k \in Checked : health_report.data_sources[k] = Healthy}

\* C18: the overall status is healthy when every source checked
\* succeeded, degraded when some but not all did, critical when none did;
\* FRED is probed only with a key, and without one the report says no key,
\* which is no error.
C18_OverallStatus ==
    /\ hpc = "fred" => fred_api_key
    /\ HealthEnded =>
          /\ ~fred_api_key => health_report.data_sources["fred"] = NoApiKey
          /\ health_report.overall_status =
                IF Succeeded = Checked THEN "HEALTHY"
                ELSE IF Succeeded # {} THEN "DEGRADED"
                ELSE "CRITICAL"

\* what holds of C18: the status is as stated over the entries of the
\* report, the entry of FRED without a key being one that did not succeed
C18_OverallOverEntries ==
    /\ hpc = "fred" => fred_api_key
    /\ HealthEnded =>
          LET ds == health_report.data_sources
              ok == {k \in DOMAIN ds : ds[k] = Healthy}
          IN  /\ ~fred_api_key => ds["fred"] = NoApiKey
              /\ health_report.overall_status =
                    IF ok = DOMAIN ds THEN "HEALTHY"
                    ELSE IF ok # {} THEN "DEGRADED"
                    ELSE "CRITICAL"
              /\ ~fred_api_key => health_report.overall_status # "HEALTHY"

====
